---------------------------- MODULE Spec2Model ----------------------------
(***************************************************************************)
(* A model of src/server/info.ts of mc-tools: address validation and       *)
(* parsing, the multi-provider status query of fetchServerStatus, the      *)
(* normalisation of a provider payload, the latency probe pingServer with  *)
(* its socket events, and the template renderer formatServerStatus.        *)
(*                                                                         *)
(* JavaScript strings are TLA+ strings; positions are 1-based here, so a   *)
(* JavaScript index i is i + 1 and "not found" (-1) is 0.  An optional     *)
(* value (undefined / null / absent field) is a sequence of length at most *)
(* one: None or Some(v).                                                   *)
(***************************************************************************)
EXTENDS Integers, Sequences, FiniteSets, TLC

None == << >>
Some(v) == << v >>
IsSome(o) == Len(o) = 1
Get(o) == o[1]

-----------------------------------------------------------------------------
(* String primitives of the JavaScript runtime used by the source.         *)

\* s.charAt(i): the empty string outside the string.
CharAt(s, i) == IF i >= 1 /\ i <= Len(s) THEN SubSeq(s, i, i) ELSE ""

Digits == {"0", "1", "2", "3", "4", "5", "6", "7", "8", "9"}

IsDigit(c) == c \in Digits

DigitVal(c) ==
  CASE c = "0" -> 0 [] c = "1" -> 1 [] c = "2" -> 2 [] c = "3" -> 3
    [] c = "4" -> 4 [] c = "5" -> 5 [] c = "6" -> 6 [] c = "7" -> 7
    [] c = "8" -> 8 [] c = "9" -> 9

UpperChars == "ABCDEFGHIJKLMNOPQRSTUVWXYZ"
LowerChars == "abcdefghijklmnopqrstuvwxyz"

LowerChar(c) ==
  IF \E i \in 1..Len(UpperChars) : CharAt(UpperChars, i) = c
  THEN CharAt(LowerChars, CHOOSE i \in 1..Len(UpperChars) : CharAt(UpperChars, i) = c)
  ELSE c

RECURSIVE toLowerCase(_)
toLowerCase(s) ==
  IF Len(s) = 0 THEN "" ELSE LowerChar(Head(s)) \o toLowerCase(Tail(s))

StartsWith(s, p) == Len(s) >= Len(p) /\ SubSeq(s, 1, Len(p)) = p

EndsWith(s, p) == Len(s) >= Len(p) /\ SubSeq(s, Len(s) - Len(p) + 1, Len(s)) = p

\* String.prototype.indexOf / lastIndexOf for a one-character needle; 0 = absent.
IndexOf(s, c) ==
  IF \E i \in 1..Len(s) : CharAt(s, i) = c
  THEN CHOOSE i \in 1..Len(s) :
         CharAt(s, i) = c /\ \A j \in 1..(i - 1) : CharAt(s, j) # c
  ELSE 0

LastIndexOf(s, c) ==
  IF \E i \in 1..Len(s) : CharAt(s, i) = c
  THEN CHOOSE i \in 1..Len(s) :
         CharAt(s, i) = c /\ \A j \in (i + 1)..Len(s) : CharAt(s, j) # c
  ELSE 0

Includes(s, c) == IndexOf(s, c) # 0

CountChar(s, c) == Cardinality({i \in 1..Len(s) : CharAt(s, i) = c})

AllDigits(s) == \A i \in 1..Len(s) : IsDigit(CharAt(s, i))

\* The white space that trim and parseInt skip.
IsSpace(c) == c \in {" ", "\t", "\n", "\r"}

\* String.prototype.trimStart and trimEnd: the string from its first, or up
\* to its last, character that is not white space.
TrimStart(s) ==
  IF \A i \in 1..Len(s) : IsSpace(CharAt(s, i)) THEN ""
  ELSE SubSeq(s, CHOOSE i \in 1..Len(s) :
                   ~IsSpace(CharAt(s, i)) /\ \A j \in 1..(i - 1) : IsSpace(CharAt(s, j)),
              Len(s))

TrimEnd(s) ==
  IF \A i \in 1..Len(s) : IsSpace(CharAt(s, i)) THEN ""
  ELSE SubSeq(s, 1, CHOOSE i \in 1..Len(s) :
                      ~IsSpace(CharAt(s, i)) /\ \A j \in (i + 1)..Len(s) : IsSpace(CharAt(s, j)))

Trim(s) == TrimEnd(TrimStart(s))

\* The length of the run of decimal digits of s that starts at position i.
RECURSIVE DigitRun(_, _)
DigitRun(s, i) ==
  IF i <= Len(s) /\ IsDigit(CharAt(s, i)) THEN 1 + DigitRun(s, i + 1) ELSE 0

RECURSIVE DigitsValue(_)
DigitsValue(s) ==
  IF Len(s) = 0 THEN 0
  ELSE 10 * DigitsValue(SubSeq(s, 1, Len(s) - 1)) + DigitVal(CharAt(s, Len(s)))

NaN == [nan |-> TRUE, val |-> 0]
Num(n) == [nan |-> FALSE, val |-> n]

\* parseInt(s, 10): leading blanks are skipped, an optional sign is read, then
\* the longest run of digits; NaN when that run is empty.
parseInt(s) ==
  LET t == TrimStart(s)
      signed == Len(t) > 0 /\ Head(t) \in {"+", "-"}
      u == IF signed THEN Tail(t) ELSE t
      n == DigitRun(u, 1)
      v == DigitsValue(SubSeq(u, 1, n))
  IN  IF n = 0 THEN NaN
      ELSE IF signed /\ Head(t) = "-" THEN Num(0 - v) ELSE Num(v)

-----------------------------------------------------------------------------
(* FORBIDDEN_PATTERNS and validateServerAddress.                           *)

\* /^(172\.(1[6-9]|2[0-9]|3[0-1]))\./
MatchesPrivate172(s) ==
  /\ StartsWith(s, "172.")
  /\ Len(s) >= 7
  /\ \/ CharAt(s, 5) = "1" /\ CharAt(s, 6) \in {"6", "7", "8", "9"}
     \/ CharAt(s, 5) = "2" /\ IsDigit(CharAt(s, 6))
     \/ CharAt(s, 5) = "3" /\ CharAt(s, 6) \in {"0", "1"}
  /\ CharAt(s, 7) = "."

\* FORBIDDEN_PATTERNS.some(pattern => pattern.test(s)): every pattern is
\* anchored at the start of s, and "$" at its end.
FORBIDDEN_PATTERNS(s) ==
  \/ s = "localhost"                      \* /^localhost$/
  \/ StartsWith(s, "127.")                \* /^127\./
  \/ s = "0.0.0.0"                        \* /^0\.0\.0\.0$/
  \/ StartsWith(s, "[::]")                \* /^\[::\]/
  \/ s = "::"                             \* /^::$/
  \/ StartsWith(s, "[::1]")               \* /^\[::1\]/
  \/ StartsWith(s, "10.")                 \* /^10\./
  \/ StartsWith(s, "192.168.")            \* /^(192\.168)\./
  \/ MatchesPrivate172(s)
  \/ StartsWith(s, "169.254.")            \* /^(169\.254)\./
  \/ StartsWith(s, "fe80:")               \* /^fe80:/
  \/ (Len(s) > 0 /\ Head(s) \in {"f", "d"})  \* /^[fd]/
  \/ StartsWith(s, "ff")                  \* /^ff/

MinPort == 1
MaxPort == 65535

\* validateServerAddress(input): Some(input) when accepted, None for null.
validateServerAddress(input) ==
  LET lowerAddr == toLowerCase(input)
      hasColon == Includes(lowerAddr, ":")
      portPart == SubSeq(lowerAddr, LastIndexOf(lowerAddr, ":") + 1, Len(lowerAddr))
      port == parseInt(portPart)
  IN  IF FORBIDDEN_PATTERNS(lowerAddr) THEN None
      ELSE IF hasColon /\ Len(portPart) > 0
                /\ (port.nan \/ port.val < MinPort \/ port.val > MaxPort)
           THEN None
      ELSE Some(input)

-----------------------------------------------------------------------------
(* parseServerAddress.                                                     *)

\* address.match(/^\[(.+)\]:(\d+)$/): the digits run to the end of the string,
\* so "]:" can only sit right before the last colon.  None when no match,
\* otherwise Some of the two groups.
MatchBracketPort(s) ==
  LET k == LastIndexOf(s, ":")
  IN  IF /\ Len(s) >= 5
         /\ Head(s) = "["
         /\ k >= 4
         /\ CharAt(s, k - 1) = "]"
         /\ k < Len(s)
         /\ AllDigits(SubSeq(s, k + 1, Len(s)))
      THEN Some([g1 |-> SubSeq(s, 2, k - 2), g2 |-> SubSeq(s, k + 1, Len(s))])
      ELSE None

\* address.match(/^\[(.+)\]$/)
MatchBracket(s) ==
  IF Len(s) >= 3 /\ Head(s) = "[" /\ CharAt(s, Len(s)) = "]"
  THEN Some(SubSeq(s, 2, Len(s) - 1))
  ELSE None

parseServerAddress(address, defaultPort) ==
  LET ipv6WithPortMatch == MatchBracketPort(address)
      ipv6Match == MatchBracket(address)
      lastColonIndex == LastIndexOf(address, ":")
      port == parseInt(SubSeq(address, lastColonIndex + 1, Len(address)))
  IN  IF IsSome(ipv6WithPortMatch)
      THEN [host |-> Get(ipv6WithPortMatch).g1,
            port |-> parseInt(Get(ipv6WithPortMatch).g2).val]
      ELSE IF IsSome(ipv6Match)
      THEN [host |-> Get(ipv6Match), port |-> defaultPort]
      ELSE IF CountChar(address, ":") + 1 > 2 /\ ~EndsWith(address, "]")
      THEN [host |-> address, port |-> defaultPort]
      ELSE IF lastColonIndex > 0 /\ ~port.nan
      THEN [host |-> SubSeq(address, 1, lastColonIndex - 1), port |-> port.val]
      ELSE [host |-> address, port |-> defaultPort]

-----------------------------------------------------------------------------
(* Provider payloads (the decoded JSON body of a provider response) and    *)
(* normalizeApiResponse.  Only the fields that decide online/offline, the  *)
(* host, the port, the player counts and the error are modelled; the       *)
(* display-only fields (motd, version, icon, ...) are copied through by    *)
(* the source without influencing them.                                    *)

\* A payload is the JSON value null, or an object with optional fields.
JsonNull == [json |-> "null"]

Payload(online, status, error, description, hostname, host, server, port,
        ipv6Port, players) ==
  [json |-> "object", online |-> online, status |-> status, error |-> error,
   description |-> description, hostname |-> hostname, host |-> host,
   server |-> server, port |-> port, ipv6Port |-> ipv6Port,
   players |-> players]

\* JavaScript truthiness of a payload and of an optional string.
TruthyData(data) == data.json = "object"
Truthy(o) == IsSome(o) /\ Get(o) # ""

\* a || b on optional strings
OrElse(a, b) == IF Truthy(a) THEN a ELSE b

\* a ?? b on optional values
Coalesce(a, b) == IF IsSome(a) THEN a ELSE b

DefaultJavaPort == 25565
DefaultBedrockPort == 19132

DefaultPortOf(serverType) ==
  IF serverType = "java" THEN DefaultJavaPort ELSE DefaultBedrockPort

HexDigits == "0123456789abcdef"

IsHexDigit(c) == \E i \in 1..Len(HexDigits) : CharAt(HexDigits, i) = LowerChar(c)

HexVal(c) == (CHOOSE i \in 1..Len(HexDigits) : CharAt(HexDigits, i) = LowerChar(c)) - 1

RECURSIVE HexRun(_, _)
HexRun(s, i) ==
  IF i <= Len(s) /\ IsHexDigit(CharAt(s, i)) THEN 1 + HexRun(s, i + 1) ELSE 0

RECURSIVE HexValue(_)
HexValue(s) ==
  IF Len(s) = 0 THEN 0
  ELSE 16 * HexValue(SubSeq(s, 1, Len(s) - 1)) + HexVal(CharAt(s, Len(s)))

\* parseInt(o) with no radix, of a possibly undefined string: undefined gives
\* NaN, a "0x" prefix selects base 16, anything else is parsed in base 10.
parseIntAuto(o) ==
  IF ~IsSome(o) THEN NaN
  ELSE LET t == TrimStart(Get(o))
           signed == Len(t) > 0 /\ Head(t) \in {"+", "-"}
           u == IF signed THEN Tail(t) ELSE t
           n == HexRun(u, 3)
           v == HexValue(SubSeq(u, 3, 2 + n))
       IN  IF StartsWith(toLowerCase(u), "0x")
           THEN IF n = 0 THEN NaN
                ELSE IF signed /\ Head(t) = "-" THEN Num(0 - v) ELSE Num(v)
           ELSE parseInt(Get(o))

\* The first two elements of address.split(':'): the second is undefined
\* when the address holds no colon.
SplitFirst(address) ==
  LET i == IndexOf(address, ":")
  IN  IF i = 0 THEN address ELSE SubSeq(address, 1, i - 1)

SplitSecond(address) ==
  LET i == IndexOf(address, ":")
      rest == SubSeq(address, i + 1, Len(address))
      j == IndexOf(rest, ":")
  IN  IF i = 0 THEN None
      ELSE IF j = 0 THEN Some(rest) ELSE Some(SubSeq(rest, 1, j - 1))

\* finalHost.match(/^([^:]+):(\d+)$/)
MatchHostPort(s) ==
  LET k == IndexOf(s, ":")
  IN  IF k >= 2 /\ k < Len(s) /\ AllDigits(SubSeq(s, k + 1, Len(s)))
      THEN Some([g1 |-> SubSeq(s, 1, k - 1), g2 |-> SubSeq(s, k + 1, Len(s))])
      ELSE None

NullPlayers == [online |-> None, max |-> None]

\* The ServerStatus record: ping is absent until the probe has run.
OfflineStatus(host, port, error) ==
  [online |-> FALSE, host |-> host, port |-> port, players |-> NullPlayers,
   error |-> error, ping |-> None]

IsOfflinePayload(data) ==
  \/ data.online = Some(FALSE)
  \/ /\ IsSome(data.status)
     /\ toLowerCase(Get(data.status)) \in {"error", "offline"}

normalizeApiResponse(data, address, serverType) ==
  LET hostFromAddr == SplitFirst(address)
      portStr == SplitSecond(address)
      defaultPort == DefaultPortOf(serverType)
      parsed == parseIntAuto(portStr)
      portFromAddr == IF parsed.nan \/ parsed.val = 0 THEN defaultPort ELSE parsed.val
      host0 == Get(OrElse(data.hostname,
                     OrElse(data.host, OrElse(data.server, Some(hostFromAddr)))))
      port0 == Coalesce(data.port, data.ipv6Port)
      ipv6Match == MatchBracketPort(host0)
      hostPortMatch == IF LastIndexOf(host0, ":") > IndexOf(host0, ":")
                       THEN None ELSE MatchHostPort(host0)
      match == IF IsSome(ipv6Match) THEN ipv6Match ELSE hostPortMatch
      embedded == ~IsSome(port0) /\ IsSome(match)
      finalHost == IF embedded THEN Get(match).g1 ELSE host0
      finalPort == IF embedded THEN Some(parseInt(Get(match).g2).val) ELSE port0
      pl == data.players
  IN  IF IsOfflinePayload(data)
      THEN OfflineStatus(hostFromAddr, portFromAddr,
                         OrElse(data.error, data.description))
      ELSE [online |-> TRUE,
            host |-> finalHost,
            port |-> Get(Coalesce(finalPort, Some(portFromAddr))),
            players |-> IF IsSome(pl)
                        THEN [online |-> Coalesce(Get(pl).online, Get(pl).now),
                              max |-> Get(pl).max]
                        ELSE NullPlayers,
            error |-> None,
            ping |-> None]

-----------------------------------------------------------------------------
(* The state of one query: fetchServerStatus, its provider requests and    *)
(* the latency probe it awaits.                                            *)

VARIABLES
  pc,           \* "init", "waiting" (await allSettled), "probing" (await pingServer), "done"
  server,       \* the user's address string
  serverType,   \* "java" or "bedrock"
  serverApis,   \* config.serverApis: the family tag of each declared endpoint
  address,      \* validateServerAddress(server)
  requests,     \* the provider requests, in declaration order: status and value
  settleOrder,  \* the indices of requests in the order they settled
  successfulData, \* apiResults.find(fulfilled)?.value, with the index found
  status,       \* the result of normalizeApiResponse, when it was called
  result,       \* the ServerStatus the query returned
  probe,        \* the socket / datagram handle, timer and promise of pingServer
  vIn, vOut,    \* an address and what the validator and parser make of it
  rStatus, rTemplate, rOut \* a status, a template and the rendering of them

queryVars == << pc, server, serverType, serverApis, address, requests,
                settleOrder, successfulData, status, result, probe >>
validateVars == << vIn, vOut >>
renderVars == << rStatus, rTemplate, rOut >>
vars == << pc, server, serverType, serverApis, address, requests, settleOrder,
           successfulData, status, result, probe, vIn, vOut, rStatus,
           rTemplate, rOut >>

\* Bounds of the model.
MaxApis == 2
MaxElapsed == 1

ServerTypes == {"java", "bedrock"}

\* The addresses a user may give: plain, with a port, with a port out of
\* range, deny-listed, a bracketed IPv6 literal with a port and a bare one.
Servers ==
  {"mc.io", "mc.io:25566", "mc.io:70000", "localhost", "[2a01::1]:19133", "::1"}

\* The payloads a provider may answer with.
OnlinePlain ==
  Payload(Some(TRUE), None, None, None, None, None, None, None, None,
          Some([online |-> Some(5), now |-> None, max |-> Some(20)]))
OnlineOwnHost ==
  Payload(None, Some("ok"), None, None, Some("127.0.0.1:70000"), None, None,
          None, None, Some([online |-> None, now |-> Some(0), max |-> None]))
OfflineError ==
  Payload(Some(FALSE), None, Some("timed out"), None, None, None, None, None,
          None, None)
OfflineBare ==
  Payload(Some(FALSE), None, None, None, None, None, None, None, None, None)
StatusOffline ==
  Payload(None, Some("Offline"), None, Some("down"), None, Some("b.io"), None,
          Some(25570), None, None)

Payloads == {JsonNull, OnlinePlain, OnlineOwnHost, OfflineError, OfflineBare,
             StatusOffline}

\* The fixed messages of fetchServerStatus: '无效地址' and '查询失败'.
InvalidAddressMsg == "invalid address"
QueryFailedMsg == "query failed"

Unreachable == -1

IdleProbe ==
  [kind |-> "none", host |-> "", port |-> 0, handle |-> "none",
   timer |-> "none", sendCb |-> "none", promise |-> None,
   closedTwice |-> FALSE]

NoData == [index |-> 0, value |-> JsonNull]

\* apiEndpoints: the declared endpoints of the requested family, in
\* declaration order (their indices in serverApis).
RECURSIVE FilterApis(_, _, _)
FilterApis(apis, type, i) ==
  IF i > Len(apis) THEN << >>
  ELSE IF apis[i] = type THEN << i >> \o FilterApis(apis, type, i + 1)
  ELSE FilterApis(apis, type, i + 1)

apiEndpoints == FilterApis(serverApis, serverType, 1)

PendingRequest == [status |-> "pending", value |-> JsonNull]

\* A race in place of allSettled: some request has settled.
AnySettled ==
  Len(requests) = 0 \/ \E i \in 1..Len(requests) : requests[i].status # "pending"

\* Promise.allSettled: every request has settled.
AllSettled == \A i \in 1..Len(requests) : requests[i].status # "pending"

\* The fulfilled request that settled first, in place of the first declared.
FindFastest(results, i) ==
  LET done == SelectSeq(settleOrder, LAMBDA k : results[k].status = "fulfilled")
  IN  IF Len(done) = 0 THEN [index |-> 0, value |-> [json |-> "null"]]
      ELSE [index |-> done[1], value |-> results[done[1]].value]

\* apiResults.find(r => r.status === 'fulfilled')?.value
RECURSIVE FindFulfilled(_, _)
FindFulfilled(results, i) ==
  IF i > Len(results) THEN NoData
  ELSE IF results[i].status = "fulfilled"
       THEN [index |-> i, value |-> results[i].value]
       ELSE FindFulfilled(results, i + 1)

\* pingServer up to the end of the promise executor: the socket or datagram
\* handle exists, its timer is armed and the connect or send is under way.
StartProbe(host, port, type) ==
  [kind |-> IF type = "java" THEN "tcp" ELSE "udp",
   host |-> host, port |-> port, handle |-> "open", timer |-> "armed",
   sendCb |-> IF type = "java" THEN "none" ELSE "pending",
   promise |-> None, closedTwice |-> FALSE]

QueryInit ==
  /\ pc = "init"
  /\ server \in Servers
  /\ serverType \in ServerTypes
  /\ serverApis \in [1..MaxApis -> ServerTypes]
  /\ address = None
  /\ requests = << >>
  /\ settleOrder = << >>
  /\ successfulData = NoData
  /\ status = None
  /\ result = None
  /\ probe = IdleProbe

ValidateIdle == vIn = "" /\ vOut = None
RenderIdle == rStatus = None /\ rTemplate = "" /\ rOut = None

Init == QueryInit /\ ValidateIdle /\ RenderIdle

\* A fetchServerStatus that issues its requests before it looks at the
\* validator's answer.
StartIssuesFirst ==
  /\ pc = "init"
  /\ LET a == validateServerAddress(server)
         hp == parseServerAddress(server, DefaultPortOf(serverType))
     IN  /\ address' = a
         /\ requests' = [i \in 1..Len(apiEndpoints) |-> PendingRequest]
         /\ IF ~Truthy(a)
            THEN /\ result' = Some(OfflineStatus(hp.host, hp.port, Some(InvalidAddressMsg)))
                 /\ pc' = "done"
            ELSE /\ pc' = "waiting"
                 /\ UNCHANGED result
  /\ UNCHANGED << server, serverType, serverApis, settleOrder, successfulData,
                  status, probe, validateVars, renderVars >>

\* fetchServerStatus from its entry to the await of Promise.allSettled: the
\* address is validated and parsed; a rejected address returns at once, an
\* accepted one issues one request per endpoint of the family.
Start ==
  /\ pc = "init"
  /\ LET a == validateServerAddress(server)
         hp == parseServerAddress(server, DefaultPortOf(serverType))
     IN  /\ address' = a
         /\ IF ~Truthy(a)
            THEN /\ result' = Some(OfflineStatus(hp.host, hp.port, Some(InvalidAddressMsg)))
                 /\ pc' = "done"
                 /\ UNCHANGED requests
            ELSE /\ requests' = [i \in 1..Len(apiEndpoints) |-> PendingRequest]
                 /\ pc' = "waiting"
                 /\ UNCHANGED result
  /\ UNCHANGED << server, serverType, serverApis, settleOrder, successfulData,
                  status, probe, validateVars, renderVars >>

\* A provider answers with an ok status and a decodable body.
Fulfil(i) ==
  /\ i \in 1..Len(requests)
  /\ requests[i].status = "pending"
  /\ \E p \in Payloads :
       requests' = [requests EXCEPT ![i] = [status |-> "fulfilled", value |-> p]]
  /\ settleOrder' = Append(settleOrder, i)
  /\ UNCHANGED << pc, server, serverType, serverApis, address, successfulData,
                  status, result, probe, validateVars, renderVars >>

\* A request fails: a transport error, a non-ok HTTP status or an
\* undecodable body.
Reject(i) ==
  /\ i \in 1..Len(requests)
  /\ requests[i].status = "pending"
  /\ requests' = [requests EXCEPT ![i] = [status |-> "rejected", value |-> JsonNull]]
  /\ settleOrder' = Append(settleOrder, i)
  /\ UNCHANGED << pc, server, serverType, serverApis, address, successfulData,
                  status, result, probe, validateVars, renderVars >>

\* fetchServerStatus from the end of the await of allSettled to the call of
\* pingServer or to its return.
Select ==
  /\ pc = "waiting"
  /\ AllSettled
  /\ LET found == FindFulfilled(requests, 1)
         hp == parseServerAddress(Get(address), DefaultPortOf(serverType))
         st == normalizeApiResponse(found.value, Get(address), serverType)
         failed == Some(OfflineStatus(hp.host, hp.port, Some(QueryFailedMsg)))
     IN  /\ successfulData' = found
         /\ IF TruthyData(found.value)
            THEN /\ status' = Some(st)
                 /\ IF st.online
                    THEN /\ probe' = StartProbe(st.host, st.port, serverType)
                         /\ pc' = "probing"
                         /\ UNCHANGED result
                    ELSE /\ result' = failed
                         /\ pc' = "done"
                         /\ UNCHANGED probe
            ELSE /\ result' = failed
                 /\ pc' = "done"
                 /\ UNCHANGED << status, probe >>
  /\ UNCHANGED << server, serverType, serverApis, address, requests,
                  settleOrder, validateVars, renderVars >>

-----------------------------------------------------------------------------
(* pingServer: the handlers registered on the socket (java) or on the      *)
(* datagram client (bedrock).  Each handler runs to completion.  The       *)
(* runtime delivers no connect, error, message or timeout event on a       *)
(* handle that was destroyed or closed; the callback of send is called     *)
(* once, possibly after the client was closed.  The 10 second timeout is   *)
(* the timer firing, at any moment while it is armed.                      *)

\* resolve(v): only the first call settles the promise.
Resolve(p, v) == IF IsSome(p.promise) THEN p ELSE [p EXCEPT !.promise = Some(v)]

\* socket.destroy(): the handle is released and its idle timer stopped.
Destroy(p) ==
  [p EXCEPT !.handle = "closed", !.timer = IF @ = "armed" THEN "cleared" ELSE @]

\* client.close(): closing a client that is already closed throws.
Close(p) ==
  IF p.handle = "closed" THEN [p EXCEPT !.closedTwice = TRUE]
  ELSE [p EXCEPT !.handle = "closed"]

\* const onError = () => { socket.destroy(); resolve(-1); }
onError(p) == Resolve(Destroy(p), Unreachable)

\* socket.on('connect', () => { socket.destroy(); resolve(Date.now() - startTime); })
onConnect(p, ms) == Resolve(Destroy(p), ms)

\* A timer callback that closes the client and leaves the promise pending.
onTimerNoResolve(p) == [p EXCEPT !.timer = "fired", !.handle = "closed"]

\* setTimeout(() => { client.close(); resolve(-1); }, 10000)
onTimer(p) ==
  LET q == Close([p EXCEPT !.timer = "fired"])
  IN  IF p.handle = "closed" THEN q ELSE Resolve(q, Unreachable)

\* const cleanup = () => { clearTimeout(timer); client.close(); }, followed
\* by resolve(v) unless close threw.
cleanupThenResolve(p, v) ==
  LET q == Close([p EXCEPT !.timer = IF @ = "armed" THEN "cleared" ELSE @])
  IN  IF p.handle = "closed" THEN q ELSE Resolve(q, v)

ProbeUnchanged ==
  UNCHANGED << pc, server, serverType, serverApis, address, requests,
               settleOrder, successfulData, status, result, validateVars,
               renderVars >>

TcpConnect ==
  /\ probe.kind = "tcp" /\ probe.handle = "open"
  /\ \E ms \in 0..MaxElapsed : probe' = onConnect(probe, ms)
  /\ ProbeUnchanged

TcpError ==
  /\ probe.kind = "tcp" /\ probe.handle = "open"
  /\ probe' = onError(probe)
  /\ ProbeUnchanged

TcpTimeout ==
  /\ probe.kind = "tcp" /\ probe.handle = "open" /\ probe.timer = "armed"
  /\ probe' = onError([probe EXCEPT !.timer = "fired"])
  /\ ProbeUnchanged

UdpMessage ==
  /\ probe.kind = "udp" /\ probe.handle = "open"
  /\ \E ms \in 0..MaxElapsed : probe' = cleanupThenResolve(probe, ms)
  /\ ProbeUnchanged

UdpError ==
  /\ probe.kind = "udp" /\ probe.handle = "open"
  /\ probe' = cleanupThenResolve(probe, Unreachable)
  /\ ProbeUnchanged

\* client.send(pingData, port, host, (err) => { if (err) { cleanup(); resolve(-1); } })
UdpSendCallback ==
  /\ probe.kind = "udp" /\ probe.sendCb = "pending"
  /\ \E err \in BOOLEAN :
       LET q == [probe EXCEPT !.sendCb = "called"]
       IN  probe' = IF err THEN cleanupThenResolve(q, Unreachable) ELSE q
  /\ ProbeUnchanged

UdpTimer ==
  /\ probe.kind = "udp" /\ probe.timer = "armed"
  /\ probe' = onTimer(probe)
  /\ ProbeUnchanged

\* fetchServerStatus after the await of pingServer: status.ping is set and
\* the status returned.
Resume ==
  /\ pc = "probing"
  /\ IsSome(probe.promise)
  /\ status' = Some([Get(status) EXCEPT !.ping = probe.promise])
  /\ result' = status'
  /\ pc' = "done"
  /\ UNCHANGED << server, serverType, serverApis, address, requests,
                  settleOrder, successfulData, probe, validateVars, renderVars >>

Next ==
  \/ Start
  \/ \E i \in 1..MaxApis : Fulfil(i)
  \/ \E i \in 1..MaxApis : Reject(i)
  \/ Select
  \/ TcpConnect
  \/ TcpError
  \/ TcpTimeout
  \/ UdpMessage
  \/ UdpError
  \/ UdpSendCallback
  \/ UdpTimer
  \/ Resume

Spec == Init /\ [][Next]_vars

\* The runtime fires an armed timer, and resumes a function whose awaited
\* promise has settled.
LiveSpec ==
  /\ Spec
  /\ WF_vars(TcpTimeout)
  /\ WF_vars(UdpTimer)
  /\ WF_vars(Resume)

-----------------------------------------------------------------------------
(* validateServerAddress and parseServerAddress applied to an address on   *)
(* its own.                                                                *)

DeniedHosts ==
  {"localhost", "LocalHost", "127.0.0.1", "0.0.0.0", "::", "::1", "10.0.0.5",
   "192.168.1.1", "172.16.0.1", "172.31.9.9", "169.254.1.1", "fe80::1",
   "FE80::1", "fd00::1", "fc00::1", "ff02::1"}

PublicHosts ==
  {"mc.io", "8.8.8.8", "172.32.0.1", "172.15.0.1", "2a01::1", "play.net",
   "example.com"}

\* An address as a user writes it: bare or bracketed, with or without a port.
AddressForms(h) ==
  {h, h \o ":25565", "[" \o h \o "]", "[" \o h \o "]:25565", h \o ":0",
   h \o ":70000", h \o ":abc"}

ValidateInputs == UNION {AddressForms(h) : h \in DeniedHosts \cup PublicHosts}

QueryIdle ==
  /\ pc = "idle"
  /\ server = ""
  /\ serverType = "java"
  /\ serverApis = << >>
  /\ address = None
  /\ requests = << >>
  /\ settleOrder = << >>
  /\ successfulData = NoData
  /\ status = None
  /\ result = None
  /\ probe = IdleProbe

ValidateInit ==
  /\ vIn \in ValidateInputs
  /\ vOut = None
  /\ QueryIdle
  /\ RenderIdle

Validate ==
  /\ vOut = None
  /\ vOut' = Some([valid |-> validateServerAddress(vIn),
                   parsed |-> parseServerAddress(vIn, DefaultJavaPort)])
  /\ UNCHANGED << vIn, queryVars, renderVars >>

ValidateNext == Validate

ValidateSpec == ValidateInit /\ [][ValidateNext]_vars

-----------------------------------------------------------------------------
(* formatServerStatus.  The status it renders carries every field that     *)
(* getValue reads; a list is a sequence, an item of plugins or mods is     *)
(* [name, version] with an optional version.                               *)

\* Number.prototype.toString
RECURSIVE NatToString(_)
NatToString(n) ==
  IF n < 10 THEN CharAt("0123456789", n + 1)
  ELSE NatToString(n \div 10) \o CharAt("0123456789", (n % 10) + 1)

toString(n) == IF n < 0 THEN "-" \o NatToString(0 - n) ELSE NatToString(n)

\* String.prototype.split for a one-character separator.
RECURSIVE Split(_, _)
Split(s, sep) ==
  LET i == IndexOf(s, sep)
  IN  IF i = 0 THEN << s >>
      ELSE << SubSeq(s, 1, i - 1) >> \o Split(SubSeq(s, i + 1, Len(s)), sep)

\* Array.prototype.join
RECURSIVE Join(_, _)
Join(seq, sep) ==
  IF Len(seq) = 0 THEN ""
  ELSE IF Len(seq) = 1 THEN seq[1]
  ELSE seq[1] \o sep \o Join(Tail(seq), sep)

\* The number of consecutive newlines of s from position i on.
RECURSIVE NewlineRun(_, _)
NewlineRun(s, i) ==
  IF i <= Len(s) /\ CharAt(s, i) = "\n" THEN 1 + NewlineRun(s, i + 1) ELSE 0

\* s.replace(/\n{3,}/g, '\n\n'): the text up to the first run of newlines,
\* that run (two newlines when it holds three or more), and the rest likewise.
RECURSIVE CollapseNewlines(_)
CollapseNewlines(s) ==
  LET i == IndexOf(s, "\n")
      n == NewlineRun(s, i)
  IN  IF i = 0 THEN s
      ELSE SubSeq(s, 1, i - 1)
             \o (IF n >= 3 THEN "\n\n" ELSE SubSeq(s, i, i + n - 1))
             \o CollapseNewlines(SubSeq(s, i + n, Len(s)))

\* The length of the run of characters other than "{", "}" and ":" from i on.
RECURSIVE NameRun(_, _)
NameRun(s, i) ==
  IF i <= Len(s) /\ CharAt(s, i) \notin {"{", "}", ":"}
  THEN 1 + NameRun(s, i + 1) ELSE 0

\* A match of /\{([^{}:]+)(?::(\d+))?\}/ that starts at position i of line:
\* the name, the optional limit and the position of the closing brace.
NoMatch == [ok |-> FALSE, name |-> "", limit |-> None, last |-> 0]

MatchPlaceholderAt(line, i) ==
  LET n == NameRun(line, i + 1)
      j == i + 1 + n
      d == DigitRun(line, j + 1)
  IN  IF CharAt(line, i) # "{" \/ n = 0 THEN NoMatch
      ELSE IF CharAt(line, j) = "}"
      THEN [ok |-> TRUE, name |-> SubSeq(line, i + 1, j - 1), limit |-> None,
            last |-> j]
      ELSE IF CharAt(line, j) = ":" /\ d > 0 /\ CharAt(line, j + 1 + d) = "}"
      THEN [ok |-> TRUE, name |-> SubSeq(line, i + 1, j - 1),
            limit |-> Some(SubSeq(line, j + 1, j + d)), last |-> j + 1 + d]
      ELSE NoMatch

\* The position of the first "{" of line at or after position i; 0 if none.
NextBrace(line, i) ==
  IF \E j \in i..Len(line) : CharAt(line, j) = "{"
  THEN CHOOSE j \in i..Len(line) :
         CharAt(line, j) = "{" /\ \A k \in i..(j - 1) : CharAt(line, k) # "{"
  ELSE 0

\* [...line.matchAll(regex)], from position i on: the regex can only match
\* at a "{".
RECURSIVE MatchAll(_, _)
MatchAll(line, i) ==
  LET b == NextBrace(line, i)
      m == MatchPlaceholderAt(line, b)
  IN  IF b = 0 THEN << >>
      ELSE IF m.ok THEN << m >> \o MatchAll(line, m.last + 1)
      ELSE MatchAll(line, b + 1)

\* p[2] ? parseInt(p[2]) : undefined
LimitOf(m) == IF Truthy(m.limit) THEN Some(parseInt(Get(m.limit)).val) ELSE None

\* text of one item of formatList
ItemText(item) ==
  IF Truthy(item.version) THEN item.name \o "-" \o Get(item.version) ELSE item.name

RECURSIVE ItemTexts(_)
ItemTexts(list) ==
  IF Len(list) = 0 THEN << >> ELSE << ItemText(Head(list)) >> \o ItemTexts(Tail(list))

\* formatList(list, limit) of an optional list and an optional limit
formatList(list, limit) ==
  IF ~IsSome(list) \/ Len(Get(list)) = 0 THEN None
  ELSE LET l == Get(list)
           lim == IF IsSome(limit) /\ Get(limit) # 0 THEN Get(limit) ELSE Len(l)
           limitedList == SubSeq(l, 1, IF lim < Len(l) THEN lim ELSE Len(l))
           text == Join(ItemTexts(limitedList), ", ")
       IN  IF IsSome(limit) /\ Get(limit) # 0 /\ Get(limit) < Len(l)
           THEN Some(text \o "...") ELSE Some(text)

\* status.players.list?.map(name => ({name}))
RECURSIVE NamesAsItems(_)
NamesAsItems(names) ==
  IF Len(names) = 0 THEN << >>
  ELSE << [name |-> Head(names), version |-> None] >> \o NamesAsItems(Tail(names))

OptLength(list) == IF IsSome(list) THEN Some(toString(Len(Get(list)))) ELSE None

OptToString(n) == IF IsSome(n) THEN Some(toString(Get(n))) ELSE None

\* h.image(icon).toString() of koishi: an image element that embeds the icon.
ImageElement(icon) == "<img src=\"" \o icon \o "\"/>"

\* The labels '基岩版', '教育版' and '是'.
BedrockLabel == "Bedrock Edition"
EducationLabel == "Education Edition"
YesLabel == "yes"

\* getValue(name, limit): None is null or undefined.
getValue(st, name, limit) ==
  CASE name = "name" ->
         IF st.port = DefaultJavaPort \/ st.port = DefaultBedrockPort
         THEN Some(st.host) ELSE Some(st.host \o ":" \o toString(st.port))
    [] name = "ip" -> st.ip_address
    [] name = "srv" ->
         IF IsSome(st.srv_record)
         THEN Some(Get(st.srv_record).host \o ":" \o toString(Get(st.srv_record).port))
         ELSE None
    [] name = "icon" ->
         IF IsSome(st.icon) /\ StartsWith(Get(st.icon), "data:image/png;base64,")
         THEN Some(ImageElement(Get(st.icon))) ELSE None
    [] name = "motd" -> st.motd
    [] name = "version" -> st.version_name_clean
    [] name = "online" -> OptToString(st.players.online)
    [] name = "max" -> OptToString(st.players.max)
    [] name = "ping" ->
         IF IsSome(st.ping) /\ Get(st.ping) # Unreachable
         THEN Some(toString(Get(st.ping)) \o "ms") ELSE None
    [] name = "software" -> st.software
    [] name = "edition" ->
         IF st.edition = Some("MCPE") THEN Some(BedrockLabel)
         ELSE IF st.edition = Some("MCEE") THEN Some(EducationLabel)
         ELSE st.edition
    [] name = "gamemode" -> st.gamemode
    [] name = "eulablock" -> IF st.eula_blocked = Some(TRUE) THEN Some(YesLabel) ELSE None
    [] name = "serverid" -> st.server_id
    [] name = "playercount" -> OptLength(st.players.list)
    [] name = "plugincount" -> OptLength(st.plugins)
    [] name = "modcount" -> OptLength(st.mods)
    [] name = "playerlist" ->
         formatList(IF IsSome(st.players.list)
                    THEN Some(NamesAsItems(Get(st.players.list))) ELSE None, limit)
    [] name = "pluginlist" -> formatList(st.plugins, limit)
    [] name = "modlist" -> formatList(st.mods, limit)
    [] OTHER -> None

\* placeholders.some in place of placeholders.every
SomeEmpty(st, placeholders) ==
  \E k \in 1..Len(placeholders) :
     ~Truthy(getValue(st, placeholders[k].name, LimitOf(placeholders[k])))

\* placeholders.every(p => !getValue(p[1], limit))
EveryEmpty(st, placeholders) ==
  \A k \in 1..Len(placeholders) :
     ~Truthy(getValue(st, placeholders[k].name, LimitOf(placeholders[k])))

\* line.replace(regex, (match, name, limitStr) => getValue(name, limit) ?? ''),
\* from position i on: the text before the next "{" is copied.
RECURSIVE ReplacePlaceholders(_, _, _)
ReplacePlaceholders(st, line, i) ==
  LET b == NextBrace(line, i)
      m == MatchPlaceholderAt(line, b)
  IN  IF b = 0 THEN SubSeq(line, i, Len(line))
      ELSE IF m.ok
      THEN SubSeq(line, i, b - 1)
             \o Get(Coalesce(getValue(st, m.name, LimitOf(m)), Some("")))
             \o ReplacePlaceholders(st, line, m.last + 1)
      ELSE SubSeq(line, i, b) \o ReplacePlaceholders(st, line, b + 1)

\* The callback of .map: a line becomes '' or its substitution.
MapLine(st, line) ==
  LET placeholders == MatchAll(line, 1)
  IN  IF Len(placeholders) > 0 /\ EveryEmpty(st, placeholders) THEN ""
      ELSE ReplacePlaceholders(st, line, 1)

\* .filter(line => line.trim().length > 0)
KeepLine(line) == Len(Trim(line)) > 0

\* formatServerStatus(status, config): the lines after .map and after .filter
\* are recorded with the text returned.
formatServerStatus(st, template) ==
  LET lines == Split(template, "\n")
      mapped == [i \in 1..Len(lines) |-> MapLine(st, lines[i])]
      kept == SelectSeq(mapped, KeepLine)
  IN  IF ~st.online THEN [mapped |-> << >>, kept |-> << >>, text |-> st.error]
      ELSE [mapped |-> mapped, kept |-> kept,
            text |-> Some(Trim(CollapseNewlines(Join(kept, "\n"))))]

-----------------------------------------------------------------------------
(* formatServerStatus applied to a status and a template on their own.     *)

MaxLines == 3

RenderStatus(online, ping, playersOnline, playersMax, list, motd, error) ==
  [online |-> online, host |-> "mc.io", port |-> DefaultJavaPort,
   ip_address |-> None, srv_record |-> None, icon |-> None, motd |-> motd,
   version_name_clean |-> Some("1.20"),
   players |-> [online |-> playersOnline, max |-> playersMax, list |-> list],
   ping |-> ping, software |-> None, edition |-> None, gamemode |-> None,
   eula_blocked |-> None, server_id |-> None, plugins |-> None,
   mods |-> Some(<< [name |-> "jei", version |-> Some("1")],
                    [name |-> "rei", version |-> None] >>),
   error |-> error]

PlayerCounts == {<< Some(5), Some(20) >>, << Some(0), None >>, << None, None >>}

RenderStatuses ==
  {RenderStatus(TRUE, ping, counts[1], counts[2], Some(<< "Al", "Bo" >>), motd, None) :
     ping \in {None, Some(Unreachable), Some(42)},
     counts \in PlayerCounts,
     motd \in {None, Some(""), Some(" "), Some("a\n\n\nb")}}
  \cup {RenderStatus(FALSE, None, None, None, None, None, Some(QueryFailedMsg))}

TemplateLines ==
  {"Ping: {ping}", "Players: {online}/{max}", "{motd}", "{nope}{ip}",
   "Mods {modlist:1} {playerlist:5} {x:y}"}

Templates ==
  {Join(ls, "\n") : ls \in UNION {[1..n -> TemplateLines] : n \in 1..MaxLines}}

RenderInit ==
  /\ rStatus \in RenderStatuses
  /\ rTemplate \in Templates
  /\ rOut = None
  /\ QueryIdle
  /\ ValidateIdle

Render ==
  /\ rOut = None
  /\ rOut' = Some(formatServerStatus(rStatus, rTemplate))
  /\ UNCHANGED << rStatus, rTemplate, queryVars, validateVars >>

RenderNext == Render

RenderSpec == RenderInit /\ [][RenderNext]_vars

-----------------------------------------------------------------------------
(* Properties of the query.                                                *)

Min(S) == CHOOSE x \in S : \A y \in S : x <= y

FulfilledRequests == {i \in 1..Len(requests) : requests[i].status = "fulfilled"}

\* The selection of line 136 has run.
Selected == pc = "probing" \/ (pc = "done" /\ Truthy(address))

\* C1: once fetchServerStatus has selected, the data it uses is that of the
\* first request in declaration order that was fulfilled, whatever the order
\* in which the requests settled: no later fulfilled request is used, a
\* rejected earlier one does not stop a later fulfilled one from being used,
\* and the status it normalised is the status of that request's payload.
C1_FirstDeclaredSuccessUsed ==
  Selected =>
    IF FulfilledRequests = {}
    THEN successfulData.index = 0 /\ status = None
    ELSE LET first == Min(FulfilledRequests)
         IN  /\ successfulData.index = first
             /\ successfulData.value = requests[first].value
             /\ IsSome(status) =>
                  [Get(status) EXCEPT !.ping = None] =
                    normalizeApiResponse(requests[first].value, Get(address), serverType)

\* The first declared request was rejected after the second was fulfilled,
\* and the second one's data was selected.
C1_Witness ==
  /\ Selected
  /\ Len(requests) >= 2
  /\ requests[1].status = "rejected"
  /\ requests[2].status = "fulfilled"
  /\ settleOrder[1] = 2
  /\ successfulData.index = 2
  /\ IsSome(status)

\* C2: whenever the latency probe has been started, the address was accepted,
\* one request was issued per endpoint of the family and every one of them
\* has settled, and a fulfilled request's payload was selected and
\* normalised to an online status.
C2_ProbeOnlyAfterSelection ==
  probe.kind # "none" =>
    /\ Truthy(address)
    /\ Len(requests) = Len(apiEndpoints)
    /\ \A i \in 1..Len(requests) : requests[i].status # "pending"
    /\ successfulData.index \in FulfilledRequests
    /\ IsSome(status) /\ Get(status).online

\* The probe is under way after two requests settled.
C2_Witness ==
  /\ pc = "probing"
  /\ probe.handle = "open"
  /\ Len(requests) = 2
  /\ Len(settleOrder) = 2

C4_InvalidAddressNoNetwork ==
  (pc # "init" /\ validateServerAddress(server) = None) =>
    /\ pc = "done"
    /\ IsSome(result)
    /\ ~Get(result).online
    /\ Get(result).error = Some(InvalidAddressMsg)
    /\ requests = << >>
    /\ settleOrder = << >>
    /\ probe = IdleProbe

\* A deny-listed address was answered.
C4_Witness ==
  /\ pc = "done"
  /\ server = "localhost"
  /\ IsSome(result)
  /\ Get(result).error = Some(InvalidAddressMsg)

\* C5: when the selected payload reports the server offline, the status
\* returned is offline and its error is that payload's error or description.
C5_ProviderOfflineTextReturned ==
  (/\ pc = "done"
   /\ successfulData.index # 0
   /\ TruthyData(successfulData.value)
   /\ IsOfflinePayload(successfulData.value)) =>
    /\ IsSome(result)
    /\ ~Get(result).online
    /\ Get(result).error =
         OrElse(successfulData.value.error, successfulData.value.description)

OfflineRecordComplete(r) ==
  (IsSome(r) /\ ~Get(r).online) =>
    /\ Get(r).players.online = None
    /\ Get(r).players.max = None
    /\ Truthy(Get(r).error)

\* C6: every offline status, be it the one normalizeApiResponse produced or
\* the one fetchServerStatus returned, has null player counts and a
\* non-empty error.
C6_OfflineHasNullPlayersAndError ==
  OfflineRecordComplete(status) /\ OfflineRecordComplete(result)

\* C7: the port of every status returned lies in 1..65535.
C7_ReturnedPortInRange ==
  IsSome(result) => Get(result).port \in MinPort..MaxPort

\* C10: the host the probe connects or sends to is one that
\* validateServerAddress accepts.
C10_ProbeHostAccepted ==
  probe.kind # "none" => validateServerAddress(probe.host) # None

-----------------------------------------------------------------------------
(* Properties of the validator.                                            *)

\* The deny-list as the specification words it, of a lower-case host.
HostDenied(h) ==
  \/ h = "localhost"
  \/ StartsWith(h, "127.")
  \/ h = "0.0.0.0"
  \/ h = "::"
  \/ h = "::1"
  \/ StartsWith(h, "10.")
  \/ StartsWith(h, "192.168.")
  \/ MatchesPrivate172(h)
  \/ StartsWith(h, "169.254.")
  \/ StartsWith(h, "fe80:")
  \/ StartsWith(h, "fd")
  \/ StartsWith(h, "fc")
  \/ StartsWith(h, "ff")

\* C8: an address whose host, as parseServerAddress extracts it, is on the
\* deny-list in any letter case is rejected by validateServerAddress.
C8_DeniedHostRejected ==
  (IsSome(vOut) /\ HostDenied(toLowerCase(Get(vOut).parsed.host))) =>
    Get(vOut).valid = None

-----------------------------------------------------------------------------
(* Properties of the renderer.                                             *)

Range(f) == {f[i] : i \in DOMAIN f}

TemplateLinesOf(template) == Split(template, "\n")

\* The value a placeholder resolves to for the status rendered, and whether
\* it is empty or absent.
ResolvedValue(m) == getValue(rStatus, m.name, LimitOf(m))

ResolvesEmpty(m) == ResolvedValue(m) = None \/ ResolvedValue(m) = Some("")

\* Whether every placeholder of the matches ms resolves empty.
AllResolveEmpty(ms) == \A k \in 1..Len(ms) : ResolvesEmpty(ms[k])

\* The length of the text of a placeholder.
PlaceholderLength(m) ==
  2 + Len(m.name) + (IF IsSome(m.limit) THEN 1 + Len(Get(m.limit)) ELSE 0)

\* The line with each placeholder of ms, from position pos on, replaced by
\* its value or by the empty string.
RECURSIVE SubstituteFrom(_, _, _)
SubstituteFrom(line, pos, ms) ==
  IF Len(ms) = 0 THEN SubSeq(line, pos, Len(line))
  ELSE LET m == Head(ms)
           first == m.last - PlaceholderLength(m) + 1
       IN  SubSeq(line, pos, first - 1)
             \o (IF ResolvesEmpty(m) THEN "" ELSE Get(ResolvedValue(m)))
             \o SubstituteFrom(line, m.last + 1, Tail(ms))

IsBlank(t) == \A i \in 1..Len(t) : IsSpace(CharAt(t, i))

\* What the rule as stated makes of a line: None when the line is dropped.
\* A placeholder line is dropped exactly when all its placeholders resolve
\* empty; a line without placeholders, of which the rule says nothing, is
\* dropped when blank.
StatedLine(line) ==
  LET ms == MatchAll(line, 1)
  IN  IF Len(ms) > 0
      THEN IF AllResolveEmpty(ms) THEN None ELSE Some(SubstituteFrom(line, 1, ms))
      ELSE IF IsBlank(line) THEN None ELSE Some(line)

\* What the amended rule makes of a line: a placeholder line whose
\* placeholders all resolve empty is dropped, and so is any line that is
\* blank after substitution.
ExpectedLine(line) ==
  LET ms == MatchAll(line, 1)
      sub == SubstituteFrom(line, 1, ms)
  IN  IF (Len(ms) > 0 /\ AllResolveEmpty(ms)) \/ IsBlank(sub) THEN None ELSE Some(sub)

\* The lines kept, in order.
RECURSIVE Flatten(_)
Flatten(opts) ==
  IF Len(opts) = 0 THEN << >> ELSE Head(opts) \o Flatten(Tail(opts))

Rendered == IsSome(rOut) /\ rStatus.online

\* C9 as stated: for an online status, a placeholder line is dropped when
\* all its placeholders resolve empty and is otherwise kept with every
\* placeholder replaced by its value or by the empty string, so that the text
\* returned is made of exactly those lines.
C9_LineRuleAsStated ==
  Rendered =>
    LET lines == TemplateLinesOf(rTemplate)
        stated == Flatten([i \in 1..Len(lines) |-> StatedLine(lines[i])])
    IN  Get(rOut).text = Some(Trim(CollapseNewlines(Join(stated, "\n"))))

\* C9 (amended): for an online status, a placeholder line is dropped when all
\* its placeholders resolve empty or when it is blank after substitution,
\* and is otherwise kept with every placeholder replaced by its value or by
\* the empty string; the text returned is the kept lines joined by newlines,
\* with runs of three or more newlines collapsed to two, trimmed.
C9_LineRule ==
  Rendered =>
    LET lines == TemplateLinesOf(rTemplate)
        expected == [i \in 1..Len(lines) |-> ExpectedLine(lines[i])]
    IN  /\ \A i \in 1..Len(lines) :
             IF IsSome(expected[i])
             THEN /\ Get(rOut).mapped[i] = Get(expected[i])
                  /\ Get(expected[i]) \in Range(Get(rOut).kept)
             ELSE Get(rOut).mapped[i] \notin Range(Get(rOut).kept)
        /\ Get(rOut).kept = Flatten(expected)
        /\ Get(rOut).text = Some(Trim(CollapseNewlines(Join(Flatten(expected), "\n"))))

\* The latency is absent and the player counts are 5 and 20: the ping line
\* is dropped and the players line kept.
C9_Witness ==
  /\ Rendered
  /\ rTemplate = "Ping: {ping}\nPlayers: {online}/{max}"
  /\ rStatus.ping = None
  /\ rStatus.players.online = Some(5)
  /\ Get(rOut).text = Some("Players: 5/20")

=============================================================================
